---- MODULE Spec2Model ----
(***************************************************************************)
(* Model of handler.py: the scheduled job that backs up tagged EC2         *)
(* instances into AMIs (backup_tagged_instances_in_region) and deletes the *)
(* AMIs whose DeleteAfter date has passed (delete_expired_amis), region by *)
(* region (lambda_handler).  The EC2 account is part of the state: the     *)
(* instances, the images with their tags and block-device mappings, and    *)
(* the snapshots.  Every EC2 call either succeeds or raises; the wall      *)
(* clock may move to the next day between any two steps.                   *)
(***************************************************************************)
EXTENDS Integers, Sequences, FiniteSets, TLC

(* ------------------------------ bounds -------------------------------- *)

\* Number of midnights the wall clock may cross during a behaviour.
MaxDay == 1
\* Number of invocations of lambda_handler in one process lifetime.
MaxRuns == 2
\* Number of EC2 calls that may fail during a behaviour.
MaxFaults == 2
\* Number of instances and images the first region holds at the start.
MaxResources == 2

(* ------------------------- module-level config ------------------------ *)

\* aws_regions after LIMIT_TO_REGIONS narrowed it to two regions.
aws_regions == <<"us-east-1", "us-east-2">>

tags_to_find == {"backup", "Backup"}

\* default_retention_time: 7 unless DEFAULT_RETENTION_TIME overrides it;
\* int() accepts any integer, 0 included.
DefaultRetentionValues == {0, 7}

global_key_to_tag_on == "AWSAutomatedDailySnapshots"

(* ------------------------------ calendar ------------------------------ *)

\* A date is <<year, month, day>>.  Day 0 of the model's clock.
Epoch == <<2023, 12, 31>>

IsLeap(y) == (y % 4 = 0 /\ y % 100 # 0) \/ y % 400 = 0

DaysInMonth(y, m) ==
    IF m = 2 THEN (IF IsLeap(y) THEN 29 ELSE 28)
    ELSE IF m \in {4, 6, 9, 11} THEN 30 ELSE 31

NextDay(d) ==
    IF d[3] < DaysInMonth(d[1], d[2]) THEN <<d[1], d[2], d[3] + 1>>
    ELSE IF d[2] < 12 THEN <<d[1], d[2] + 1, 1>>
    ELSE <<d[1] + 1, 1, 1>>

PrevDay(d) ==
    IF d[3] > 1 THEN <<d[1], d[2], d[3] - 1>>
    ELSE IF d[2] > 1 THEN <<d[1], d[2] - 1, DaysInMonth(d[1], d[2] - 1)>>
    ELSE <<d[1] - 1, 12, 31>>

\* date + datetime.timedelta(days=n)
RECURSIVE AddDays(_, _)
AddDays(d, n) ==
    IF n = 0 THEN d
    ELSE IF n > 0 THEN AddDays(NextDay(d), n - 1)
    ELSE AddDays(PrevDay(d), n + 1)

\* %m and %d print two digits, %Y prints the year.
TwoDigits(n) == IF n < 10 THEN "0" \o ToString(n) ELSE ToString(n)

\* strftime('%m-%d-%Y')
Strftime(d) == TwoDigits(d[2]) \o "-" \o TwoDigits(d[3]) \o "-" \o ToString(d[1])

\* The dates strptime is asked about in this model: two whole years.
ParseYears == 2023 .. 2024

\* The dates of ParseYears.
ValidDates ==
    UNION { { <<ym[1], ym[2], dd>> : dd \in 1 .. DaysInMonth(ym[1], ym[2]) } :
            ym \in ParseYears \X (1 .. 12) }

\* Every text strptime('%m-%d-%Y') reads as a date of ParseYears, with the
\* date it reads: %m and %d accept one or two digits.
ParseTable ==
    UNION { { <<mt \o "-" \o dt \o "-" \o ToString(d[1]), d>> :
                 mt \in {TwoDigits(d[2]), ToString(d[2])},
                 dt \in {TwoDigits(d[3]), ToString(d[3])} } :
            d \in ValidDates }

ParsedTexts == { p[1] : p \in ParseTable }

\* time.strptime(s, '%m-%d-%Y'): <<"ok", date>> or <<"ValueError", Epoch>>.
Strptime(s) ==
    IF s \in ParsedTexts
    THEN <<"ok", (CHOOSE p \in ParseTable : p[1] = s)[2]>>
    ELSE <<"ValueError", Epoch>>

\* struct_time < struct_time: tuples compare field by field, year first.
TimeLess(a, b) ==
    \/ a[1] < b[1]
    \/ a[1] = b[1] /\ a[2] < b[2]
    \/ a[1] = b[1] /\ a[2] = b[2] /\ a[3] < b[3]

(* ------------------------------ EC2 data ------------------------------ *)

Tag(k, v) == [Key |-> k, Value |-> v]

\* Tag sets of the instances an account may hold.
InstanceProfiles ==
    { [State |-> "running",
       Tags  |-> <<Tag("backup", "")>>],
      [State |-> "running",
       Tags  |-> <<Tag("Backup", "true"), Tag("Name", "web1"), Tag("Retention", "3")>>],
      [State |-> "stopped",
       Tags  |-> <<Tag("aws:cloudformation:stack-name", "prod"), Tag("backup", ""),
                   Tag("Name", "db1"), Tag("Retention", "")>>],
      [State |-> "running",
       Tags  |-> <<Tag("backup", ""), Tag("Retention", "abc")>>],
      [State |-> "terminated",
       Tags  |-> <<Tag("backup", "")>>] }

\* Tag sets that meet what the backup pass renames or appends: keys under
\* the reserved prefix and keys that only look like it, and keys the pass
\* itself writes on an image.
TaggedProfiles ==
    { [State |-> "running",
       Tags  |-> <<Tag("aws:autoscaling:groupName", "asg1"), Tag("backup", ""),
                   Tag("aws:cloudformation:stack-name", "prod"), Tag("awsome", "x"),
                   Tag("AWS:upper", "y")>>],
      [State |-> "running",
       Tags  |-> <<Tag("backup", ""), Tag("aws:cloudformation:stack-name", "prod"),
                   Tag("internal-aws:cloudformation:stack-name", "old")>>],
      [State |-> "running",
       Tags  |-> <<Tag("DeleteAfter", "12-31-2024"), Tag("Backup", "true")>>],
      [State |-> "stopped",
       Tags  |-> <<Tag("backup", ""), Tag("OriginalInstanceID", "i-0"),
                   Tag(global_key_to_tag_on, "false")>>] }

Mapping(hasEbs, snap) == [HasEbs |-> hasEbs, SnapshotId |-> snap]

\* Tag sets and block-device mappings of the images an account may hold
\* before the first run; k numbers the image.
ImageProfiles(k) ==
    LET id == "ami-old" \o ToString(k)
        snap(j) == "snap-old" \o ToString(k) \o "-" \o ToString(j)
        marker == Tag(global_key_to_tag_on, "true")
    IN  { [ImageId |-> id,
           Tags |-> <<Tag("DeleteAfter", "12-31-2023"), marker>>,
           BlockDeviceMappings |-> <<Mapping(TRUE, snap(1)), Mapping(FALSE, ""),
                                     Mapping(TRUE, snap(2))>>],
          [ImageId |-> id,
           Tags |-> <<Tag("Name", "web1"), Tag("DeleteAfter", "01-01-2024"), marker>>,
           BlockDeviceMappings |-> <<Mapping(TRUE, snap(1))>>],
          [ImageId |-> id,
           Tags |-> <<Tag("Name", "web1"), marker>>,
           BlockDeviceMappings |-> <<Mapping(TRUE, snap(1))>>],
          [ImageId |-> id,
           Tags |-> <<Tag("DeleteAfter", "never"), marker>>,
           BlockDeviceMappings |-> <<Mapping(TRUE, snap(1))>>] }

Regions == 1 .. Len(aws_regions)

\* [i['Ebs']['SnapshotId'] for i in ami['BlockDeviceMappings'] if 'Ebs' in i]
RECURSIVE SnapshotsOf(_)
SnapshotsOf(mappings) ==
    IF mappings = <<>> THEN <<>>
    ELSE (IF Head(mappings).HasEbs THEN <<Head(mappings).SnapshotId>> ELSE <<>>)
         \o SnapshotsOf(Tail(mappings))

HasTagKey(tags, keys) == \E n \in 1 .. Len(tags) : tags[n].Key \in keys

(* ------------------------------- state -------------------------------- *)

VARIABLES
    dry_run,                 \* module global dry_run
    default_retention_time,  \* module global default_retention_time
    today,                   \* the wall clock: days since Epoch
    tod,                     \* the wall clock: microseconds since midnight
    reservations,            \* EC2: region -> the instances of the account
    images,                  \* EC2: region -> the registered images
    snapshots,               \* EC2: the snapshots that exist
    nextId,                  \* EC2: number of the next image id
    faults,                  \* EC2: calls that have failed so far
    runs,                    \* invocations of lambda_handler started
    requested,               \* EC2: the image names asked for so far
    pc,                      \* where the running invocation stands
    region,                  \* lambda_handler: index of aws_region
    instances,               \* backup pass: the non-terminated instances
    i,                       \* index of the loop in progress
    image,                   \* backup pass: ImageId create_image returned
    amis_to_consider,        \* reaper: the images listed
    today_date,              \* reaper: today, parsed
    s,                       \* reaper: index in the snapshots of the image
    calls                    \* the EC2 calls of the invocation, in order

config == <<dry_run, default_retention_time>>
cloud  == <<reservations, images, snapshots, nextId, faults>>
locals == <<region, instances, i, image, amis_to_consider, today_date, s>>
vars   == <<dry_run, default_retention_time, today, tod, reservations, images,
            snapshots, nextId, faults, runs, requested, pc, region, instances, i, image,
            amis_to_consider, today_date, s, calls>>

\* Sequences over S of length at most n.
SeqUpTo(S, n) == UNION { [1 .. k -> S] : k \in 0 .. n }

WithIds(r, fleet) ==
    [k \in 1 .. Len(fleet) |->
        [InstanceId |-> "i-" \o ToString(r) \o ToString(k),
         State |-> fleet[k].State, Tags |-> fleet[k].Tags]]

AllSnapshots(imgs) ==
    UNION { UNION { { SnapshotsOf(imgs[r][k].BlockDeviceMappings)[j] :
                        j \in 1 .. Len(SnapshotsOf(imgs[r][k].BlockDeviceMappings)) } :
                    k \in 1 .. Len(imgs[r]) } :
            r \in Regions }

\* The lists of n images an account may hold before the first run.
OldImages(n) ==
    { old \in [1 .. n -> UNION { ImageProfiles(k) : k \in 1 .. n }] :
        \A k \in 1 .. n : old[k] \in ImageProfiles(k) }

\* An account whose first region alone holds instances and images.
OneRegion(fleet, old) ==
    [reservations |-> [r \in Regions |-> IF r = 1 THEN WithIds(1, fleet) ELSE <<>>],
     images       |-> [r \in Regions |-> IF r = 1 THEN old ELSE <<>>]]

\* An account with, in every region, one instance to back up and one image
\* whose date has come.
EveryRegion ==
    [reservations |-> [r \in Regions |-> WithIds(r, <<CHOOSE p \in InstanceProfiles :
                          p.State = "running" /\ Len(p.Tags) = 1>>)],
     images       |-> [r \in Regions |-> <<CHOOSE a \in ImageProfiles(r) :
                          HasTagKey(a.Tags, {"DeleteAfter"})
                          /\ Len(a.BlockDeviceMappings) = 3>>]]

\* The accounts of this model: any instances and images in the first region,
\* MaxResources of them at most; one instance of TaggedProfiles; EveryRegion.
Accounts ==
    UNION { { OneRegion(fleet, old) :
                old \in UNION { OldImages(n) : n \in 0 .. MaxResources - Len(fleet) } } :
            fleet \in SeqUpTo(InstanceProfiles, MaxResources) }
    \cup { OneRegion(<<p>>, <<>>) : p \in TaggedProfiles }
    \cup { EveryRegion }

\* The state when the module has been imported (lines 14-38) and before the
\* first invocation: any configuration and any account.
Init ==
    /\ dry_run \in BOOLEAN
    /\ default_retention_time \in DefaultRetentionValues
    /\ today = 0
    /\ tod = 0
    /\ \E account \in Accounts :
         /\ reservations = account.reservations
         /\ images = account.images
    /\ snapshots = AllSnapshots(images)
    /\ nextId = 1
    /\ faults = 0
    /\ runs = 0
    /\ requested = {}
    /\ pc = "idle"
    /\ region = 0
    /\ instances = <<>>
    /\ i = 0
    /\ image = ""
    /\ amis_to_consider = <<>>
    /\ today_date = Epoch
    /\ s = 0
    /\ calls = <<>>

(* --------------------------- the wall clock --------------------------- *)

\* datetime.date.today(), and the date of datetime.datetime.now()
DateToday == AddDays(Epoch, today)

\* Midnight passes.  The code reads the clock at three places only (the
\* image name, delete_fmt and today_date), so a midnight anywhere shows as
\* one just before the next of them.
Tick ==
    /\ today < MaxDay
    /\ pc \in {"backup", "tag_image", "describe_images"}
    /\ today' = today + 1
    /\ tod' = 0
    /\ UNCHANGED <<config, cloud, runs, requested, pc, locals, calls>>

\* The wall clock is set back within the day (a step of the time service, the
\* end of daylight saving time, an operator): datetime.datetime.now() is the
\* local wall clock, not a monotonic one.  It shows at the next reading of
\* the time of day, which is the image name.
ClockSetBack ==
    /\ pc = "backup"
    /\ \E earlier \in 0 .. tod - 1 : tod' = earlier
    /\ UNCHANGED <<config, today, cloud, runs, requested, pc, locals, calls>>

(* ------------------------------ the log ------------------------------- *)

\* One EC2 call as the log keeps it: the API, the region of the client, the
\* resource it names, how it ended, the image it concerns, and the Name or
\* Tags argument.
Call(api, target, result, ami, name, tags) ==
    [api |-> api, region |-> region, target |-> target, result |-> result,
     ami |-> ami, name |-> name, tags |-> tags]

\* The ways an EC2 call may end: it succeeds, or raises one of the errors.
Outcomes(errors) == IF faults < MaxFaults THEN {"ok"} \cup errors ELSE {"ok"}

Counted(result) == faults' = faults + (IF result = "ok" THEN 0 ELSE 1)

MutatingApis == {"create_image", "create_tags", "deregister_image", "delete_snapshot"}

(* --------------------------- lambda_handler --------------------------- *)

\* lambda_handler is entered: the loop over aws_regions takes the first
\* region.
Enter ==
    /\ runs' = runs + 1
    /\ pc' = "describe_instances"
    /\ region' = 1
    /\ instances' = <<>>
    /\ i' = 0
    /\ image' = ""
    /\ amis_to_consider' = <<>>
    /\ s' = 0
    /\ calls' = <<>>
    /\ UNCHANGED <<config, today, tod, cloud, requested, today_date>>

\* The first invocation of the process.
Invoke == pc = "idle" /\ Enter

\* A later invocation of the same process, after one that returned or raised.
InvokeAgain == pc \in {"done", "raised"} /\ runs < MaxRuns /\ Enter

\* backup_tagged_instances_in_region returned: delete_expired_amis is called.
BackupReturns ==
    /\ pc' = "describe_images"
    /\ instances' = <<>>
    /\ i' = 0
    /\ image' = ""

\* delete_expired_amis returned: the loop takes the next region, or ends.
ReaperReturns ==
    /\ amis_to_consider' = <<>>
    /\ i' = 0
    /\ s' = 0
    /\ IF region < Len(aws_regions)
       THEN pc' = "describe_instances" /\ region' = region + 1
       ELSE pc' = "done" /\ region' = region

\* Variant of IsDryRun: the flag is never seen as set.
IsDryRun_never == FALSE

\* if dry_run: (both passes)
IsDryRun == dry_run

\* Variant of OptInRequired: the text is never found, every failure is
\* raised again.
OptInRequired_never(result) == FALSE

\* Variant of OptInRequired: every failure of a listing counts as a region
\* that is not activated.
OptInRequired_any(result) == TRUE

\* 'OptInRequired' in str(sys.exc_info())
OptInRequired(result) == result = "OptInRequired"

(* ----------------- backup_tagged_instances_in_region ------------------ *)

\* What describe_instances(Filters=[tag-key in tags_to_find]) answers.
DescribeInstancesResult(r) ==
    SelectSeq(reservations[r], LAMBDA x : HasTagKey(x.Tags, tags_to_find))

\* Variant of NonTerminated: the state of the instance is not looked at.
NonTerminated_any_state(listed) == listed

\* The instances kept by the loop over the reservations.
NonTerminated(listed) == SelectSeq(listed, LAMBDA x : x.State # "terminated")

\* dict_tags.get(key): <<>> for None, else <<value>>; a later tag of the same
\* key overwrites an earlier one.
RECURSIVE DictGet(_, _)
DictGet(tags, key) ==
    IF tags = <<>> THEN <<>>
    ELSE IF tags[Len(tags)].Key = key THEN <<tags[Len(tags)].Value>>
    ELSE DictGet(SubSeq(tags, 1, Len(tags) - 1), key)

\* Python's truth value of dict_tags.get(key).
Truthy(got) == got # <<>> /\ got[1] # ""

instance_name(inst) ==
    IF Truthy(DictGet(inst.Tags, "Name")) THEN DictGet(inst.Tags, "Name")[1]
    ELSE inst.InstanceId

\* Variant of retention_days: the tag counts as soon as it is present, empty
\* or not.
retention_days_if_present(inst) ==
    IF DictGet(inst.Tags, "Retention") # <<>>
    THEN [type |-> "str", str |-> DictGet(inst.Tags, "Retention")[1], int |-> 0]
    ELSE [type |-> "int", str |-> "", int |-> default_retention_time]

\* retention_days is the tag's text when the tag is set, else the integer
\* default: a value with its Python type.
retention_days(inst) ==
    IF Truthy(DictGet(inst.Tags, "Retention"))
    THEN [type |-> "str", str |-> DictGet(inst.Tags, "Retention")[1], int |-> 0]
    ELSE [type |-> "int", str |-> "", int |-> default_retention_time]

\* %f prints the microseconds in six digits.
RECURSIVE ZeroPadded(_, _)
ZeroPadded(text, width) ==
    IF Len(text) >= width THEN text ELSE ZeroPadded("0" \o text, width)

\* strftime('%Y-%m-%d-%H-%M-%S.%f') of day d at us microseconds past midnight.
StrftimeName(d, us) ==
    ToString(d[1]) \o "-" \o TwoDigits(d[2]) \o "-" \o TwoDigits(d[3])
    \o "-" \o TwoDigits((us \div 60000000) \div 60)
    \o "-" \o TwoDigits((us \div 60000000) % 60)
    \o "-" \o TwoDigits((us \div 1000000) % 60)
    \o "." \o ZeroPadded(ToString(us % 1000000), 6)

\* f"{instance_name}-backup-{datetime.datetime.now().strftime(...)}"
image_name(inst) == instance_name(inst) \o "-backup-" \o StrftimeName(DateToday, tod)

\* (datetime.date.today() + datetime.timedelta(days=n)).strftime('%m-%d-%Y')
delete_fmt(n) == Strftime(AddDays(DateToday, n))

\* instance['Tags'] after the three appends.
AppendedTags(inst, n) ==
    inst.Tags \o <<Tag("DeleteAfter", delete_fmt(n)),
                   Tag("OriginalInstanceID", inst.InstanceId),
                   Tag(global_key_to_tag_on, "true")>>

\* item['Key'].startswith('aws:')
StartsWithAws(key) == Len(key) >= 4 /\ SubSeq(key, 1, 4) = "aws:"

\* Variant of finaltags: the tags under the reserved prefix are removed
\* instead of renamed.
finaltags_removed(tags) == SelectSeq(tags, LAMBDA x : ~ StartsWithAws(x.Key))

finaltags(tags) ==
    [n \in 1 .. Len(tags) |->
        IF StartsWithAws(tags[n].Key)
        THEN Tag("internal-" \o tags[n].Key, tags[n].Value)
        ELSE tags[n]]

\* EC2 create_tags on an image: the given tags replace those of the same key.
SetTags(old, new) ==
    SelectSeq(old, LAMBDA x : ~ HasTagKey(new, {x.Key})) \o new

\* No key comes twice in the list.  EC2 refuses a Tags argument in which one
\* does (InvalidParameterValue, duplicate tag key).
DistinctKeys(tags) ==
    \A n \in 1 .. Len(tags) : \A m \in 1 .. Len(tags) :
        tags[n].Key = tags[m].Key => n = m

\* Variant of Resources: every image of the region is tagged again.
Resources_whole_region(img) ==
    { images[region][k].ImageId : k \in 1 .. Len(images[region]) }

\* Resources=[image['ImageId']]
Resources(img) == {img}

\* Variant of NextCandidate: the pass returns after its first candidate.
NextCandidate_returns(insts) == BackupReturns

\* The loop over instances goes on with the next one, or the pass returns.
NextCandidate(insts) ==
    IF i < Len(insts)
    THEN pc' = "backup" /\ i' = i + 1 /\ image' = "" /\ instances' = insts
    ELSE BackupReturns

\* Variant of Caught: no except clause, the failure leaves the pass.
Caught_not(insts) == pc' = "raised" /\ UNCHANGED <<instances, i, image>>

\* except: the failure is printed and the loop over instances goes on.
Caught(insts) == NextCandidate(insts)

\* Lines 47-68: the listing, its except clause, the filter on the state and
\* the return when nothing is left.
DescribeInstances ==
    /\ pc = "describe_instances"
    /\ \E result \in Outcomes({"OptInRequired", "error"}) :
         /\ Counted(result)
         /\ calls' = Append(calls, Call("describe_instances", "", result, "", "", <<>>))
         /\ IF result = "ok"
            THEN LET kept == NonTerminated(DescribeInstancesResult(region)) IN
                 IF Len(kept) = 0
                 THEN BackupReturns
                 ELSE pc' = "backup" /\ instances' = kept /\ i' = 1 /\ image' = ""
            ELSE IF OptInRequired(result)
            THEN BackupReturns
            ELSE pc' = "raised" /\ UNCHANGED <<instances, i, image>>
    /\ UNCHANGED <<config, today, tod, reservations, images, snapshots, nextId, runs,
                   requested, region, amis_to_consider, today_date, s>>

\* Lines 69-88: one instance under dry_run.
BackupDryRun ==
    /\ pc = "backup"
    /\ IsDryRun
    /\ NextCandidate(instances)
    /\ UNCHANGED <<config, today, tod, cloud, runs, requested, region, amis_to_consider,
                   today_date, s, calls>>

\* Lines 69-99 and 118-121: create_image for one instance; a failure is
\* caught and the loop goes on.  The call takes time: the clock has moved on
\* when it returns.
CreateImage ==
    /\ pc = "backup"
    /\ ~ IsDryRun
    /\ LET inst == instances[i]
           id   == "ami-" \o ToString(nextId)
           snap == "snap-" \o ToString(nextId)
       IN \E result \in Outcomes({"error"}) :
            /\ Counted(result)
            /\ requested' = requested \cup {image_name(inst)}
            /\ tod' = tod + 1
            /\ calls' = Append(calls,
                   Call("create_image", inst.InstanceId, result,
                        IF result = "ok" THEN id ELSE "", image_name(inst), <<>>))
            /\ IF result = "ok"
               THEN /\ images' = [images EXCEPT ![region] = Append(@,
                          [ImageId |-> id, Tags |-> <<>>,
                           BlockDeviceMappings |-> <<Mapping(TRUE, snap)>>])]
                    /\ snapshots' = snapshots \cup {snap}
                    /\ nextId' = nextId + 1
                    /\ pc' = "tag_image"
                    /\ image' = id
                    /\ UNCHANGED <<instances, i>>
               ELSE /\ Caught(instances)
                    /\ UNCHANGED <<images, snapshots, nextId>>
    /\ UNCHANGED <<config, today, reservations, runs, region, amis_to_consider,
                   today_date, s>>

\* Lines 101-121: the tags of the new image.  timedelta(days=...) raises
\* TypeError for a str, before anything is appended; that and a failure of
\* create_tags (a fault, or a Tags argument EC2 refuses) are caught and the
\* loop goes on.
TagImage ==
    /\ pc = "tag_image"
    /\ LET inst == instances[i]
           days == retention_days(inst)
       IN IF days.type # "int"
          THEN /\ Caught(instances)
               /\ UNCHANGED <<images, faults, calls>>
          ELSE LET appended == AppendedTags(inst, days.int)
                   insts    == [instances EXCEPT ![i].Tags = appended]
                   tags     == finaltags(appended)
                   refused  == ~ DistinctKeys(tags)
               IN \E result \in (IF refused THEN {"error"} ELSE Outcomes({"error"})) :
                    /\ IF refused THEN UNCHANGED faults ELSE Counted(result)
                    /\ calls' = Append(calls, Call("create_tags", image, result, image, "", tags))
                    /\ images' = IF result = "ok"
                                 THEN [images EXCEPT ![region] =
                                         [k \in 1 .. Len(@) |->
                                            IF @[k].ImageId \in Resources(image)
                                            THEN [@[k] EXCEPT !.Tags = SetTags(@, tags)]
                                            ELSE @[k]]]
                                 ELSE images
                    /\ IF result = "ok" THEN NextCandidate(insts) ELSE Caught(insts)
    /\ UNCHANGED <<config, today, tod, reservations, snapshots, nextId, runs,
                   requested, region, amis_to_consider, today_date, s>>

(* ------------------------- delete_expired_amis ------------------------ *)

\* What describe_images(Filters=[tag-key = global_key_to_tag_on],
\* Owners=['self']) answers.
DescribeImagesResult(r) ==
    SelectSeq(images[r], LAMBDA x : HasTagKey(x.Tags, {global_key_to_tag_on}))

\* [t.get('Value') for t in ami['Tags'] if t['Key'] == 'DeleteAfter']
DeleteAfterValues(tags) ==
    LET kept == SelectSeq(tags, LAMBDA x : x.Key = "DeleteAfter")
    IN  [n \in 1 .. Len(kept) |-> kept[n].Value]

\* time.strptime(datetime.datetime.now().strftime('%m-%d-%Y'), '%m-%d-%Y')
TodayParsed == Strptime(Strftime(DateToday))[2]

\* today_date < delete_date: the image is too new.
TooNew(now, delete_date) == TimeLess(now, delete_date)

\* EC2 refuses to delete a snapshot a registered image still uses (and one
\* that is gone); such a refusal is no injected fault.
InUse(snap) ==
    \E r \in Regions : \E k \in 1 .. Len(images[r]) :
        \E j \in 1 .. Len(images[r][k].BlockDeviceMappings) :
            /\ images[r][k].BlockDeviceMappings[j].HasEbs
            /\ images[r][k].BlockDeviceMappings[j].SnapshotId = snap

\* The loop over amis_to_consider goes on with the next one, or the pass
\* returns.
NextAmi ==
    IF i < Len(amis_to_consider)
    THEN pc' = "reap" /\ i' = i + 1 /\ s' = 0 /\ UNCHANGED <<region, amis_to_consider>>
    ELSE ReaperReturns

\* Lines 128-148: the listing, its except clause, today's date and the
\* return when nothing is listed.
DescribeImages ==
    /\ pc = "describe_images"
    /\ \E result \in Outcomes({"OptInRequired", "error"}) :
         /\ Counted(result)
         /\ calls' = Append(calls, Call("describe_images", "", result, "", "", <<>>))
         /\ IF result = "ok"
            THEN LET listed == DescribeImagesResult(region) IN
                 /\ today_date' = TodayParsed
                 /\ IF Len(listed) = 0
                    THEN ReaperReturns
                    ELSE /\ pc' = "reap" /\ amis_to_consider' = listed /\ i' = 1
                         /\ UNCHANGED <<region, s>>
            ELSE IF OptInRequired(result)
            THEN ReaperReturns /\ UNCHANGED today_date
            ELSE pc' = "raised" /\ UNCHANGED <<region, amis_to_consider, i, s, today_date>>
    /\ UNCHANGED <<config, today, tod, reservations, images, snapshots, nextId, runs,
                   requested, instances, image>>

\* Variant of Verdict: an image without DeleteAfter counts as one whose date
\* has come.
Verdict_untagged_expired(ami, now) ==
    LET values == DeleteAfterValues(ami.Tags) IN
    IF values = <<>> THEN (IF IsDryRun THEN "skip" ELSE "delete")
    ELSE LET delete_date == Strptime(values[1]) IN
         IF delete_date[1] # "ok" THEN "raise"
         ELSE IF TooNew(now, delete_date[2]) THEN "skip"
         ELSE IF IsDryRun THEN "skip"
         ELSE "delete"

\* Lines 152-171: what the loop does with one image: "skip" it (no
\* DeleteAfter tag, too new, or dry_run), "raise" (strptime fails, outside
\* any try) or "delete" it.
Verdict(ami, now) ==
    LET values == DeleteAfterValues(ami.Tags) IN
    IF values = <<>> THEN "skip"
    ELSE LET delete_date == Strptime(values[1]) IN
         IF delete_date[1] # "ok" THEN "raise"
         ELSE IF TooNew(now, delete_date[2]) THEN "skip"
         ELSE IF IsDryRun THEN "skip"
         ELSE "delete"

\* Variant of SnapshotsToDelete: the snapshots are left alone when
\* deregister_image failed.
SnapshotsToDelete_if_deregistered(ami, result) ==
    IF result = "ok" THEN SnapshotsOf(ami.BlockDeviceMappings) ELSE <<>>

\* The snapshots deleted after deregister_image ended with result.
SnapshotsToDelete(ami, result) == SnapshotsOf(ami.BlockDeviceMappings)

\* Lines 149-177: one image of the listing; a failure of deregister_image is
\* caught.
ReapImage ==
    /\ pc = "reap"
    /\ LET ami     == amis_to_consider[i]
           verdict == Verdict(ami, today_date)
       IN IF verdict = "skip"
          THEN NextAmi /\ UNCHANGED <<images, faults, calls>>
          ELSE IF verdict = "raise"
          THEN /\ pc' = "raised"
               /\ UNCHANGED <<region, amis_to_consider, i, s, images, faults, calls>>
          ELSE \E result \in Outcomes({"error"}) :
                 /\ Counted(result)
                 /\ calls' = Append(calls,
                        Call("deregister_image", ami.ImageId, result, ami.ImageId, "", <<>>))
                 /\ images' = IF result = "ok"
                              THEN [images EXCEPT ![region] =
                                      SelectSeq(@, LAMBDA x : x.ImageId # ami.ImageId)]
                              ELSE images
                 /\ IF SnapshotsToDelete(ami, result) = <<>>
                    THEN NextAmi
                    ELSE pc' = "delete_snapshots" /\ s' = 1
                         /\ UNCHANGED <<region, amis_to_consider, i>>
    /\ UNCHANGED <<config, today, tod, reservations, snapshots, nextId, runs,
                   requested, instances, image, today_date>>

\* Lines 179-185: delete_snapshot for one snapshot of the image; a failure is
\* caught and the loop goes on.
DeleteSnapshot ==
    /\ pc = "delete_snapshots"
    /\ LET ami   == amis_to_consider[i]
           snaps == SnapshotsOf(ami.BlockDeviceMappings)
           snap  == snaps[s]
           refused == snap \notin snapshots \/ InUse(snap)
       IN \E result \in (IF refused THEN {"error"} ELSE Outcomes({"error"})) :
            /\ IF refused THEN UNCHANGED faults ELSE Counted(result)
            /\ calls' = Append(calls, Call("delete_snapshot", snap, result, ami.ImageId, "", <<>>))
            /\ snapshots' = IF result = "ok" THEN snapshots \ {snap} ELSE snapshots
            /\ IF s < Len(snaps)
               THEN s' = s + 1 /\ UNCHANGED <<pc, region, amis_to_consider, i>>
               ELSE NextAmi
    /\ UNCHANGED <<config, today, tod, reservations, images, nextId, runs,
                   requested, instances, image, today_date>>

(* --------------------------- specification ---------------------------- *)

\* One invocation of lambda_handler, from any configuration and account.
NextOnce ==
    \/ Invoke
    \/ DescribeInstances
    \/ BackupDryRun
    \/ CreateImage
    \/ TagImage
    \/ DescribeImages
    \/ ReapImage
    \/ DeleteSnapshot
    \/ Tick

SpecOnce == Init /\ [][NextOnce]_vars

\* The invocations of one process lifetime, one after the other.
Next ==
    \/ Invoke
    \/ InvokeAgain
    \/ DescribeInstances
    \/ BackupDryRun
    \/ CreateImage
    \/ TagImage
    \/ DescribeImages
    \/ ReapImage
    \/ DeleteSnapshot
    \/ Tick

Spec == Init /\ [][Next]_vars

\* A process lifetime that starts from an account with at most one instance
\* and at most one image.
InitLifetime ==
    /\ Init
    /\ Len(reservations[1]) <= 1
    /\ Len(images[1]) <= 1
    /\ \A r \in Regions : r > 1 => reservations[r] = <<>> /\ images[r] = <<>>

SpecLifetime == InitLifetime /\ [][Next]_vars

\* A process lifetime during which the wall clock may be set back.
NextClock ==
    \/ Invoke
    \/ InvokeAgain
    \/ DescribeInstances
    \/ BackupDryRun
    \/ CreateImage
    \/ TagImage
    \/ DescribeImages
    \/ ReapImage
    \/ DeleteSnapshot
    \/ Tick
    \/ ClockSetBack

SpecClock == Init /\ [][NextClock]_vars

(* ------------------------- vocabulary of claims ----------------------- *)

HasTag(tags, k, v) == \E n \in 1 .. Len(tags) : tags[n].Key = k /\ tags[n].Value = v

TagValues(tags, k) == { tags[n].Value : n \in { m \in 1 .. Len(tags) : tags[m].Key = k } }

\* The instance has no "Retention" tag, or an empty one.
NoRetention(inst) == TagValues(inst.Tags, "Retention") \subseteq {""}

\* The texts that read as a positive integer, up to a month of days.
PositiveIntegers == 1 .. 31

NumericRetention(inst) ==
    \E n \in PositiveIntegers : TagValues(inst.Tags, "Retention") = {ToString(n)}

RetentionNumber(inst) ==
    CHOOSE n \in PositiveIntegers : TagValues(inst.Tags, "Retention") = {ToString(n)}

NonNumericRetention(inst) ==
    /\ ~ NoRetention(inst)
    /\ ~ \E n \in 0 .. 31 : TagValues(inst.Tags, "Retention") = {ToString(n)}

\* The step that ends the tagging of the image of instances[i].
TagStep == pc = "tag_image" /\ pc' # "tag_image"

\* The step issues create_tags on the new image with DeleteAfter = text.
TagsWithDeleteAfter(text) ==
    /\ Len(calls') = Len(calls) + 1
    /\ calls'[Len(calls')].api = "create_tags"
    /\ calls'[Len(calls')].target = image
    /\ HasTag(calls'[Len(calls')].tags, "DeleteAfter", text)

\* The step that ends the reaper's work on amis_to_consider[i], and the step
\* that ends the reaper's pass.
InReaper == pc \in {"reap", "delete_snapshots"}
ReaperEnds == InReaper /\ pc' \notin {"reap", "delete_snapshots"}
AmiEnds == InReaper /\ (ReaperEnds \/ i' # i)

DeleteDate(ami) == Strptime(DeleteAfterValues(ami.Tags)[1])

WellFormed(ami) == DeleteAfterValues(ami.Tags) # <<>> /\ DeleteDate(ami)[1] = "ok"

\* The log holds a call of api naming target, for the image ami.
Issued(log, api, target, ami) ==
    \E n \in 1 .. Len(log) :
        log[n].api = api /\ log[n].target = target /\ log[n].ami = ami

\* The log holds a call that deregisters ami or deletes a snapshot for it.
Touched(log, ami) ==
    \E n \in 1 .. Len(log) :
        log[n].api \in {"deregister_image", "delete_snapshot"} /\ log[n].ami = ami.ImageId

\* The log holds deregister_image for ami and delete_snapshot for each of its
\* snapshots.
FullyDeleted(log, ami) ==
    /\ Issued(log, "deregister_image", ami.ImageId, ami.ImageId)
    /\ \A j \in 1 .. Len(SnapshotsOf(ami.BlockDeviceMappings)) :
          Issued(log, "delete_snapshot", SnapshotsOf(ami.BlockDeviceMappings)[j], ami.ImageId)

(* ------------------------------- claims ------------------------------- *)

\* C1 (as claimed): in live mode, when the reaper's pass over a listing ends,
\* every listed image with a well-formed DeleteAfter date D has no
\* deregister_image and no delete_snapshot call if today is before D, and has
\* deregister_image and delete_snapshot for each of its snapshots if today is
\* D or later.
C1_AsClaimed ==
    [][(ReaperEnds /\ ~ dry_run) =>
          \A k \in 1 .. Len(amis_to_consider) :
             WellFormed(amis_to_consider[k]) =>
                IF TimeLess(today_date, DeleteDate(amis_to_consider[k])[2])
                THEN ~ Touched(calls', amis_to_consider[k])
                ELSE FullyDeleted(calls', amis_to_consider[k])]_vars

\* C2 (as claimed): in live mode, the image of a candidate whose "Retention"
\* tag reads as a positive integer N gets create_tags with DeleteAfter = the
\* date of tagging plus N days.
C2_AsClaimed ==
    [][(TagStep /\ NumericRetention(instances[i])) =>
          TagsWithDeleteAfter(Strftime(AddDays(DateToday, RetentionNumber(instances[i]))))]_vars

\* C3: in live mode, the image of a candidate with no "Retention" tag, or an
\* empty one, gets create_tags with DeleteAfter = the date of tagging plus
\* default_retention_time days, OriginalInstanceID = the instance id and the
\* managed-marker key = "true"; when create_tags succeeds the image carries
\* these tags.
C3_DefaultRetention ==
    [][(TagStep /\ NoRetention(instances[i])) =>
          LET expiry == Strftime(AddDays(DateToday, default_retention_time))
              sent   == calls'[Len(calls')]
          IN /\ TagsWithDeleteAfter(expiry)
             /\ HasTag(sent.tags, "OriginalInstanceID", instances[i].InstanceId)
             /\ HasTag(sent.tags, global_key_to_tag_on, "true")
             /\ sent.result = "ok" =>
                  \E k \in 1 .. Len(images'[region]) :
                     /\ images'[region][k].ImageId = image
                     /\ HasTag(images'[region][k].Tags, "DeleteAfter", expiry)
                     /\ HasTag(images'[region][k].Tags, "OriginalInstanceID",
                               instances[i].InstanceId)
                     /\ HasTag(images'[region][k].Tags, global_key_to_tag_on, "true")]_vars

\* The instance with id, anywhere in the account.
InstanceOf(id) ==
    CHOOSE inst \in UNION { { reservations[r][k] : k \in 1 .. Len(reservations[r]) } :
                            r \in Regions } : inst.InstanceId = id

\* The log holds a successful create_tags on the image created for an
\* instance whose "Retention" tags have these values.
TaggedWithRetention(values) ==
    \E n \in 1 .. Len(calls) : \E m \in 1 .. Len(calls) :
        /\ n < m
        /\ calls[n].api = "create_image" /\ calls[n].result = "ok"
        /\ TagValues(InstanceOf(calls[n].target).Tags, "Retention") = values
        /\ calls[m].api = "create_tags" /\ calls[m].result = "ok"
        /\ calls[m].target = calls[n].ami

\* C3 happens: in one run an instance without the tag and an instance with
\* an empty tag both had their image tagged.
C3_Witness == TaggedWithRetention({}) /\ TaggedWithRetention({""})

\* C4 (as claimed): the image of a candidate whose "Retention" tag is not
\* numeric gets create_tags with DeleteAfter = the date of tagging plus
\* default_retention_time days, and the pass goes on.
C4_AsClaimed ==
    [][(TagStep /\ NonNumericRetention(instances[i])) =>
          /\ TagsWithDeleteAfter(Strftime(AddDays(DateToday, default_retention_time)))
          /\ pc' # "raised"]_vars

\* The step appends one call to the log; LastCall is that call.
Calls1 == Len(calls') = Len(calls) + 1
LastCall == calls'[Len(calls')]

\* C5: under dry_run no step of an invocation issues create_image,
\* create_tags, deregister_image or delete_snapshot, and the images, their
\* tags and the snapshots of every region stay as they were.
C5_DryRunMutatesNothing ==
    [][dry_run =>
          /\ images' = images
          /\ snapshots' = snapshots
          /\ \A n \in 1 .. Len(calls') : calls'[n].api \notin MutatingApis]_vars

\* C5 happens: a dry run has ended after listing, in the first region, an
\* instance to back up and an image whose date has come.
C5_Witness ==
    /\ dry_run
    /\ pc = "done"
    /\ \E k \in 1 .. Len(reservations[1]) : reservations[1][k].State # "terminated"
    /\ \E k \in 1 .. Len(images[1]) :
          /\ WellFormed(images[1][k])
          /\ ~ TimeLess(DateToday, DeleteDate(images[1][k])[2])
    /\ \A n \in 1 .. Len(calls) : calls[n].result = "ok"

\* C6: a listing that fails with OptInRequired ends its pass at once, with no
\* other call and nothing raised: after describe_instances the reaper of the
\* same region is next, after describe_images the next region (or the end of
\* the run).
C6_OptInRequiredSkipsPass ==
    [][(Calls1 /\ LastCall.result = "OptInRequired") =>
          /\ images' = images
          /\ snapshots' = snapshots
          /\ LastCall.api = "describe_instances" =>
                pc' = "describe_images" /\ region' = region
          /\ LastCall.api = "describe_images" =>
                IF region < Len(aws_regions)
                THEN pc' = "describe_instances" /\ region' = region + 1
                ELSE pc' = "done"]_vars

\* C6 happens: both listings of the first region failed with OptInRequired
\* and the run went on to list the instances of the second region.
C6_Witness ==
    /\ Len(calls) >= 3
    /\ calls[1].api = "describe_instances" /\ calls[1].result = "OptInRequired"
    /\ calls[2].api = "describe_images" /\ calls[2].result = "OptInRequired"
    /\ calls[2].region = 1
    /\ calls[3].api = "describe_instances" /\ calls[3].region = 2

NoDeleteAfter(ami) == TagValues(ami.Tags, "DeleteAfter") = {}

\* The loop over amis_to_consider has gone from image i to the next one, or
\* the pass has returned after the last one.
GoesOn ==
    IF i < Len(amis_to_consider)
    THEN pc' = "reap" /\ i' = i + 1 /\ amis_to_consider' = amis_to_consider
    ELSE pc' = (IF region < Len(aws_regions) THEN "describe_instances" ELSE "done")

\* C7: a listed image without a DeleteAfter tag never gets deregister_image
\* or delete_snapshot, and the step that handles it issues no call, raises
\* nothing and goes on with the rest of the listing.
C7_NoDeleteAfterSkipped ==
    [][/\ InReaper =>
            \A k \in 1 .. Len(amis_to_consider) :
               NoDeleteAfter(amis_to_consider[k]) => ~ Touched(calls', amis_to_consider[k])
       /\ (pc = "reap" /\ NoDeleteAfter(amis_to_consider[i])) =>
             /\ calls' = calls
             /\ images' = images
             /\ snapshots' = snapshots
             /\ GoesOn]_vars

\* C7 happens: in live mode an image without DeleteAfter was passed over and
\* an image listed after it was deregistered.
C7_Witness ==
    /\ InReaper
    /\ \E j \in 1 .. Len(amis_to_consider) : \E k \in 1 .. Len(amis_to_consider) :
          /\ j < k
          /\ NoDeleteAfter(amis_to_consider[j])
          /\ Issued(calls, "deregister_image", amis_to_consider[k].ImageId,
                    amis_to_consider[k].ImageId)

\* C8 (as claimed): the reaper skips an image whose DeleteAfter tag does not
\* read as a month-day-year date: no call for it, nothing raised, and the
\* loop goes on.
C8_AsClaimed ==
    [][(pc = "reap" /\ ~ NoDeleteAfter(amis_to_consider[i])
                    /\ ~ WellFormed(amis_to_consider[i])) =>
          /\ calls' = calls
          /\ pc' # "raised"
          /\ GoesOn]_vars

InBackup == pc \in {"backup", "tag_image"}

\* C9: a failure of create_image or of create_tags is followed by the next
\* candidate of the listing (or by the return of the pass), never by an
\* exception; and when the pass of a live run returns, create_image has been
\* attempted for every candidate of the listing.
C9_FailureDoesNotAbortBatch ==
    [][/\ (Calls1 /\ LastCall.api \in {"create_image", "create_tags"}
                  /\ LastCall.result = "error") =>
             IF i < Len(instances)
             THEN pc' = "backup" /\ i' = i + 1
             ELSE pc' = "describe_images" /\ region' = region
       /\ (InBackup /\ pc' \notin {"backup", "tag_image"} /\ ~ dry_run) =>
             \A k \in 1 .. Len(instances) :
                \E n \in 1 .. Len(calls') :
                   /\ calls'[n].api = "create_image"
                   /\ calls'[n].target = instances[k].InstanceId]_vars

\* C9 happens: create_tags failed for one candidate, create_image was then
\* attempted for the next one of the same listing and failed too, and the
\* pass returned: the reaper listed the images of the region.
C9_Witness ==
    \E n \in 1 .. Len(calls) :
        /\ n + 2 <= Len(calls)
        /\ calls[n].api = "create_tags" /\ calls[n].result = "error"
        /\ calls[n + 1].api = "create_image" /\ calls[n + 1].result = "error"
        /\ calls[n + 1].region = calls[n].region
        /\ calls[n + 2].api = "describe_images"
        /\ calls[n + 2].region = calls[n].region

\* The image's date has come: its DeleteAfter reads as a date not after
\* today_date.
Expired(ami) == WellFormed(ami) /\ ~ TimeLess(today_date, DeleteDate(ami)[2])

\* The log holds deregister_image for ami and, after it, delete_snapshot for
\* each of its snapshots.
DeletedInOrder(log, ami) ==
    \E n \in 1 .. Len(log) :
        /\ log[n].api = "deregister_image" /\ log[n].target = ami.ImageId
        /\ \A j \in 1 .. Len(SnapshotsOf(ami.BlockDeviceMappings)) :
              \E m \in n + 1 .. Len(log) :
                 /\ log[m].api = "delete_snapshot"
                 /\ log[m].target = SnapshotsOf(ami.BlockDeviceMappings)[j]

\* C10: in live mode every delete_snapshot of the log comes after a
\* deregister_image of its image; when the reaper is done with an image
\* whose date has come, the log holds deregister_image and then
\* delete_snapshot for each of its snapshots, whatever failed; and a failed
\* deregister_image or delete_snapshot raises nothing: the loop stays on the
\* image or goes on with the rest of the listing.
C10_DeregisterThenEverySnapshot ==
    [][/\ \A n \in 1 .. Len(calls') :
             calls'[n].api = "delete_snapshot" =>
                \E m \in 1 .. n - 1 :
                   /\ calls'[m].api = "deregister_image"
                   /\ calls'[m].target = calls'[n].ami
                   /\ calls'[m].region = calls'[n].region
       /\ (AmiEnds /\ ~ dry_run /\ Expired(amis_to_consider[i])) =>
             DeletedInOrder(calls', amis_to_consider[i]) /\ GoesOn
       /\ (Calls1 /\ LastCall.api \in {"deregister_image", "delete_snapshot"}
                  /\ LastCall.result = "error") =>
             \/ pc' = "delete_snapshots" /\ i' = i
             \/ GoesOn]_vars

\* C10 happens: deregister_image failed, the first delete_snapshot of the
\* image failed, the second was still attempted, and the next image of the
\* listing was deregistered.
C10_Witness ==
    \E n \in 1 .. Len(calls) :
        /\ n + 3 <= Len(calls)
        /\ calls[n].api = "deregister_image" /\ calls[n].result = "error"
        /\ calls[n + 1].api = "delete_snapshot" /\ calls[n + 1].result = "error"
        /\ calls[n + 1].ami = calls[n].target
        /\ calls[n + 2].api = "delete_snapshot" /\ calls[n + 2].ami = calls[n].target
        /\ calls[n + 3].api = "deregister_image" /\ calls[n + 3].target # calls[n].target

\* The key is under the prefix EC2 reserves.
ReservedKey(key) == Len(key) >= 4 /\ SubSeq(key, 1, 4) = "aws:"

BackupApis == {"describe_instances", "create_image", "create_tags"}
ReaperApis == {"describe_images", "deregister_image", "delete_snapshot"}

\* The backup pass is at its end: its listing gave nothing to do, or the
\* loop is at the last candidate.
BackupComplete ==
    \/ pc = "describe_instances"
    \/ InBackup /\ i = Len(instances)

\* The reaper is at its end: its listing gave nothing to do, or the loops
\* are at the last snapshot of the last image.
ReaperComplete ==
    \/ pc = "describe_images"
    \/ pc = "reap" /\ i = Len(amis_to_consider)
    \/ /\ pc = "delete_snapshots" /\ i = Len(amis_to_consider)
       /\ s = Len(SnapshotsOf(amis_to_consider[i].BlockDeviceMappings))

\* C12: an invocation starts with the first region and moves from a region
\* to the one after it in aws_regions only; every call is issued in the
\* region the loop is at; the reaper's listing of a region comes only when
\* the backup pass of that region has been through all its candidates, and
\* the next region only when the reaper has been through all its images;
\* so in the log the regions never go back and, within a region, no call of
\* the backup pass follows a call of the reaper.
C12_RegionsInOrder ==
    [][/\ pc = "idle" => region' = 1
       /\ (pc # "idle" /\ region' # region) =>
             region' = region + 1 /\ ReaperComplete /\ pc' = "describe_instances"
       /\ Calls1 => LastCall.region = region
       /\ (pc # "describe_images" /\ pc' = "describe_images") =>
             BackupComplete /\ region' = region
       /\ (InBackup /\ ~ dry_run /\ pc' = "describe_images") =>
             \A k \in 1 .. Len(instances) :
                \E n \in 1 .. Len(calls') :
                   /\ calls'[n].api = "create_image"
                   /\ calls'[n].target = instances[k].InstanceId
                   /\ calls'[n].region = region
       /\ \A n \in 1 .. Len(calls') : \A m \in n + 1 .. Len(calls') :
             /\ calls'[n].region <= calls'[m].region
             /\ (calls'[n].region = calls'[m].region /\ calls'[n].api \in ReaperApis)
                   => calls'[m].api \in ReaperApis]_vars

\* C12 happens: a live run has ended after it created an image and
\* deregistered one in the first region and then did both in the second.
C12_Witness ==
    /\ pc = "done"
    /\ \A r \in Regions :
          \E n \in 1 .. Len(calls) : \E m \in n + 1 .. Len(calls) :
             /\ calls[n].api = "create_image" /\ calls[n].region = r
             /\ calls[m].api = "deregister_image" /\ calls[m].region = r

\* The log holds a successful create_image that returned ami and, after it,
\* a successful create_tags on ami.
CreatedAndTagged(log, ami) ==
    \E n \in 1 .. Len(log) : \E m \in n + 1 .. Len(log) :
        /\ log[n].api = "create_image" /\ log[n].result = "ok" /\ log[n].ami = ami
        /\ log[m].api = "create_tags" /\ log[m].result = "ok" /\ log[m].target = ami

\* C13 (as claimed): no invocation issues deregister_image or delete_snapshot
\* for an image that the same invocation created and tagged, whatever the
\* retention and however the date moves between the two passes.
C13_AsClaimed ==
    [][(Calls1 /\ LastCall.api \in {"deregister_image", "delete_snapshot"}) =>
          ~ CreatedAndTagged(calls, LastCall.ami)]_vars

ListingApis == {"describe_instances", "describe_images"}

\* C14: a listing that fails for another reason than OptInRequired is the
\* last call of its invocation, which has raised: the step that issues it
\* changes no image and no snapshot, and no call follows it, in that region
\* or a later one.
C14_ListingFailureAbortsRun ==
    [][/\ (Calls1 /\ LastCall.api \in ListingApis /\ LastCall.result = "error") =>
             pc' = "raised" /\ images' = images /\ snapshots' = snapshots
       /\ \A n \in 1 .. Len(calls') :
             (calls'[n].api \in ListingApis /\ calls'[n].result = "error") =>
                n = Len(calls') /\ pc' = "raised"]_vars

\* C14 happens: describe_images failed in the first region after an image
\* was created there, and the run is over although the second region holds
\* an instance to back up.
C14_Witness ==
    /\ pc = "raised"
    /\ calls[Len(calls)].api = "describe_images"
    /\ calls[Len(calls)].result = "error"
    /\ calls[Len(calls)].region = 1
    /\ \E n \in 1 .. Len(calls) : calls[n].api = "create_image" /\ calls[n].result = "ok"
    /\ reservations[2] # <<>>

\* The log holds a listing that failed for another reason than OptInRequired.
ListingFailed(log) ==
    \E n \in 1 .. Len(log) : log[n].api \in ListingApis /\ log[n].result = "error"

\* The log holds the listings of both passes for every region.
BothPassesEverywhere(log) ==
    \A r \in Regions : \A api \in ListingApis :
        \E n \in 1 .. Len(log) : log[n].api = api /\ log[n].region = r

\* C15 (as claimed): an invocation in which no listing failed for another
\* reason than OptInRequired ends by returning, with both passes run for
\* every region: when it is over it has not raised, and the log holds both
\* listings of every region.
C15_AsClaimed ==
    (pc \in {"done", "raised"} /\ ~ ListingFailed(calls)) =>
        pc = "done" /\ BothPassesEverywhere(calls)

\* The images of every region, as a set.
AllImages(imgs) ==
    UNION { { imgs[r][k] : k \in 1 .. Len(imgs[r]) } : r \in Regions }

\* C16: no step changes the DeleteAfter tag, or any other tag, of an image
\* that has tags, in any invocation of the process lifetime; and create_tags
\* is only ever issued on the image that the create_image call just before
\* it returned, which has no tags yet.
C16_DeleteAfterWrittenOnce ==
    [][/\ \A a \in AllImages(images) : \A b \in AllImages(images') :
             (a.ImageId = b.ImageId /\ a.Tags # <<>>) =>
                /\ b.Tags = a.Tags
                /\ DeleteAfterValues(b.Tags) = DeleteAfterValues(a.Tags)
       /\ (Calls1 /\ LastCall.api = "create_tags") =>
             /\ calls[Len(calls)].api = "create_image"
             /\ calls[Len(calls)].result = "ok"
             /\ calls[Len(calls)].ami = LastCall.target
             /\ \E a \in AllImages(images) : a.ImageId = LastCall.target /\ a.Tags = <<>>]_vars

\* C16 happens: the first invocation tagged its image on one day, the second
\* invocation tagged another image on the next day, and the first image
\* still carries the date it was given.
C16_Witness ==
    /\ runs = 2
    /\ \E a \in AllImages(images) :
          a.ImageId = "ami-1" /\ DeleteAfterValues(a.Tags) = <<"01-07-2024">>
    /\ \E n \in 1 .. Len(calls) :
          /\ calls[n].api = "create_tags" /\ calls[n].result = "ok"
          /\ calls[n].target = "ami-2"
          /\ HasTag(calls[n].tags, "DeleteAfter", "01-08-2024")

\* The image was created and the backup pass is done with it, without tags:
\* create_tags failed or was not reached.
Abandoned(a) == a.Tags = <<>> /\ ~ (pc = "tag_image" /\ image = a.ImageId)

\* C17: an image left without tags stays as it is through every later step
\* of the process lifetime: it exists, it has no tags, its snapshots exist,
\* and no call names it or is issued for it.
C17_UntaggedStaysUnmanaged ==
    [][\A a \in AllImages(images) :
          Abandoned(a) =>
             /\ a \in AllImages(images')
             /\ \A j \in 1 .. Len(SnapshotsOf(a.BlockDeviceMappings)) :
                   SnapshotsOf(a.BlockDeviceMappings)[j] \in snapshots'
             /\ Calls1 => LastCall.target # a.ImageId /\ LastCall.ami # a.ImageId]_vars

\* C17 happens: the image of the first invocation was left without tags;
\* the next day a second invocation tagged its own image and deregistered
\* another one, and the first image is still there, untagged, with its
\* snapshot.
C17_Witness ==
    /\ runs = 2
    /\ today = 1
    /\ pc = "done"
    /\ \E a \in AllImages(images) : a.ImageId = "ami-1" /\ a.Tags = <<>>
    /\ "snap-1" \in snapshots
    /\ \E n \in 1 .. Len(calls) :
          calls[n].api = "create_tags" /\ calls[n].result = "ok" /\ calls[n].target = "ami-2"
    /\ \E n \in 1 .. Len(calls) :
          calls[n].api = "deregister_image" /\ calls[n].result = "ok"

\* The number of create_image calls of the log for the instance, in region r.
CreateImageCalls(log, r, id) ==
    Cardinality({ n \in 1 .. Len(log) :
        log[n].api = "create_image" /\ log[n].region = r /\ log[n].target = id })

\* The backup pass of the region returns with this step.
BackupPassReturns ==
    pc \in {"describe_instances", "backup", "tag_image"} /\ pc' = "describe_images"

\* The instances that describe_instances lists in region r and that are not
\* terminated.
ListedAlive(r) ==
    { inst \in { reservations[r][k] : k \in 1 .. Len(reservations[r]) } :
        HasTagKey(inst.Tags, tags_to_find) /\ inst.State # "terminated" }

\* C18: create_image is never issued for a terminated instance and never
\* twice for one instance in an invocation; when the backup pass of a live
\* run returns after a listing that succeeded, the log holds exactly one
\* create_image for every listed instance that is not terminated; and when
\* there is none, the pass has issued no call but its listing.
C18_OneImagePerLiveInstance ==
    [][/\ \A n \in 1 .. Len(calls') :
             calls'[n].api = "create_image" =>
                /\ InstanceOf(calls'[n].target).State # "terminated"
                /\ CreateImageCalls(calls', calls'[n].region, calls'[n].target) = 1
       /\ (BackupPassReturns /\ ~ dry_run
             /\ \E n \in 1 .. Len(calls') :
                   /\ calls'[n].api = "describe_instances"
                   /\ calls'[n].region = region /\ calls'[n].result = "ok") =>
             \A inst \in ListedAlive(region) :
                CreateImageCalls(calls', region, inst.InstanceId) = 1
       /\ (BackupPassReturns /\ ListedAlive(region) = {}) =>
             \A n \in 1 .. Len(calls') :
                calls'[n].region = region => calls'[n].api = "describe_instances"]_vars

\* C18 happens: the first region holds a terminated instance and a running
\* one, the backup pass of a live run has returned, and the log holds a
\* create_image for the running one.
C18_Witness ==
    /\ pc = "describe_images"
    /\ region = 1
    /\ ~ dry_run
    /\ \E k \in 1 .. Len(reservations[1]) : reservations[1][k].State = "terminated"
    /\ \E inst \in ListedAlive(1) : CreateImageCalls(calls, 1, inst.InstanceId) = 1

\* C19 (as claimed): every create_image of a process lifetime asks for a
\* name that no earlier create_image of the lifetime asked for, whether for
\* the same instance in an earlier invocation or for another instance of the
\* same display name, however the clock behaves in between.
C19_AsClaimed ==
    [][(Calls1 /\ LastCall.api = "create_image") => LastCall.name \notin requested]_vars

\* The keys of the tag list.
KeysOf(tags) == { tags[n].Key : n \in 1 .. Len(tags) }

\* C20 (as claimed): whatever tags the instance carries, the Tags argument
\* of create_tags has no key twice and exactly one DeleteAfter entry, the
\* date of tagging plus the retention; and when the call succeeds, the first
\* DeleteAfter entry of the image, the one the reaper reads, is that date.
C20_AsClaimed ==
    [][(Calls1 /\ LastCall.api = "create_tags") =>
          LET expiry == Strftime(AddDays(DateToday, default_retention_time)) IN
          /\ Cardinality(KeysOf(LastCall.tags)) = Len(LastCall.tags)
          /\ DeleteAfterValues(LastCall.tags) = <<expiry>>
          /\ LastCall.result = "ok" =>
                \E a \in AllImages(images') :
                   /\ a.ImageId = LastCall.target
                   /\ DeleteAfterValues(a.Tags) # <<>>
                   /\ DeleteAfterValues(a.Tags)[1] = expiry]_vars

====
